---- MODULE Spec2Model ----
(***************************************************************************)
(* Appointment scheduling of smart-salon: the appointment router           *)
(* (app/routers/appointments.py), its request schemas                      *)
(* (app/schemas/appointment.py) and the rows it reads and writes.          *)
(*                                                                         *)
(* Representation.                                                         *)
(*  - A datetime is a number of minutes since Monday 00:00 of a reference  *)
(*    week (the handlers compare datetimes and add timedelta(minutes=..)). *)
(*  - An Optional value is a set with at most one element: {} is None.     *)
(*  - A working-hours time "HH:MM" is the pair [h, m] that                 *)
(*    map(int, s.split(":")) yields.                                       *)
(*  - The JSON column working_hours is [present, days, blocks]: present is *)
(*    FALSE for NULL, days are the keys of the dict and blocks[d] the list *)
(*    stored under key d.                                                  *)
(*  - Float amounts are whole currency units.                              *)
(***************************************************************************)
EXTENDS Integers, Sequences, FiniteSets, TLC

VARIABLES appointments, services, stylists, last, inflight

vars == <<appointments, services, stylists, last, inflight>>

----------------------------------------------------------------------------
(* Program constants *)

MinutesPerHour == 60
MinutesPerDay == 1440
SlotStepMinutes == 30

(* Bounds of the model *)
MaxAppointments == 2
MaxLifecycleAppointments == 1
NumWorkers == 2

None == {}
Some(v) == {v}
TheValue(opt) == CHOOSE v \in opt : TRUE

(* Python truthiness of an Optional[str] and of an Optional[float] *)
TruthyStr(opt) == \E v \in opt : v # ""
TruthyNum(opt) == \E v \in opt : v # 0

DayNames == <<"monday", "tuesday", "wednesday", "thursday", "friday", "saturday", "sunday">>

(* datetime.strftime("%A").lower() *)
day_of_week(t) == DayNames[((t \div MinutesPerDay) % 7) + 1]

(* datetime.replace(hour=h, minute=m, second=0, microsecond=0) *)
replace_time(t, hm) == (t \div MinutesPerDay) * MinutesPerDay + hm.h * MinutesPerHour + hm.m

(* The datetime of weekday `day` of the reference week at h:m *)
At(day, h, m) ==
    ((CHOOSE i \in 1..7 : DayNames[i] = day) - 1) * MinutesPerDay + h * MinutesPerHour + m

----------------------------------------------------------------------------
(* Enumerations *)

PENDING == "pending"
CONFIRMED == "confirmed"
COMPLETED == "completed"
CANCELLED == "cancelled"
NO_SHOW == "no_show"
AppointmentStatus == {PENDING, CONFIRMED, COMPLETED, CANCELLED, NO_SHOW}

IN_SALON == "in_salon"
AT_HOME == "at_home"
AppointmentType == {IN_SALON, AT_HOME}

CLIENT == "client"
SALON_OWNER == "salon_owner"
STYLIST == "stylist"
ADMIN == "admin"

----------------------------------------------------------------------------
(* Rows the handlers only read: users and salons *)

UserIds == 1..5

UserRoleOf(u) ==
    CASE u = 1 -> CLIENT
      [] u = 2 -> STYLIST
      [] u = 3 -> SALON_OWNER
      [] u = 4 -> ADMIN
      [] OTHER -> CLIENT

SalonOwner(salon_id) == IF salon_id = 1 THEN 3 ELSE 6

----------------------------------------------------------------------------
(* Initial catalogue rows *)

HM(h, m) == [h |-> h, m |-> m]
Block(sh, sm, eh, em) == [start |-> HM(sh, sm), end |-> HM(eh, em)]

NoBlocks == [d \in {DayNames[i] : i \in 1..7} |-> <<>>]

NullHours == [present |-> FALSE, days |-> {}, blocks |-> NoBlocks]

(* {"monday": [09:00-11:00, 12:00-12:45], "tuesday": []} *)
SplitDayHours ==
    [present |-> TRUE,
     days |-> {"monday", "tuesday"},
     blocks |-> [NoBlocks EXCEPT !["monday"] =
                    <<Block(9, 0, 11, 0), Block(12, 0, 12, 45)>>]]

InitServices ==
    <<[is_active |-> TRUE, salon_id |-> 1, duration_minutes |-> 60,
       price |-> 50, home_service_fee |-> Some(15)],
      [is_active |-> TRUE, salon_id |-> 1, duration_minutes |-> 45,
       price |-> 30, home_service_fee |-> None],
      [is_active |-> TRUE, salon_id |-> 1, duration_minutes |-> 30,
       price |-> 20, home_service_fee |-> Some(0)],
      [is_active |-> FALSE, salon_id |-> 1, duration_minutes |-> 60,
       price |-> 40, home_service_fee |-> None]>>

InitStylists ==
    <<[is_active |-> TRUE, salon_id |-> 1, user_id |-> Some(2), services |-> {1, 2, 4},
       working_hours |-> SplitDayHours],
      [is_active |-> TRUE, salon_id |-> 2, user_id |-> None, services |-> {1, 3},
       working_hours |-> NullHours],
      [is_active |-> FALSE, salon_id |-> 1, user_id |-> None, services |-> {1},
       working_hours |-> SplitDayHours]>>

----------------------------------------------------------------------------
(* Queries *)

(* Mutant: the service query without its is_active filter *)
AnyService(svcs, id) ==
    IF id \in DOMAIN svcs THEN Some(svcs[id]) ELSE None

(* db.query(Service).filter(Service.id == id, Service.is_active == True).first() *)
ActiveService(svcs, id) ==
    IF id \in DOMAIN svcs /\ svcs[id].is_active THEN Some(svcs[id]) ELSE None

(* db.query(Stylist).filter(Stylist.id == id, Stylist.is_active == True).first() *)
ActiveStylist(stys, id) ==
    IF id \in DOMAIN stys /\ stys[id].is_active THEN Some(stys[id]) ELSE None

(* Mutant: the filter without its second and_ (an appointment that starts
   inside the requested interval and ends after it is missed) *)
time_conflict_without_second_clause(a, start_time, end_time) ==
    \/ (a.start_time <= start_time /\ a.end_time > start_time)
    \/ (a.start_time >= start_time /\ a.end_time <= end_time)

(* Mutant: the first and_ with end_time >= start_time (an appointment that
   ends when the requested interval starts is found) *)
time_conflict_closed(a, start_time, end_time) ==
    \/ (a.start_time <= start_time /\ a.end_time >= start_time)
    \/ (a.start_time < end_time /\ a.end_time >= end_time)
    \/ (a.start_time >= start_time /\ a.end_time <= end_time)

(* Mutant: the second and_ with start_time <= end_time (an appointment that
   starts when the requested interval ends is found) *)
time_conflict_closed_start(a, start_time, end_time) ==
    \/ (a.start_time <= start_time /\ a.end_time > start_time)
    \/ (a.start_time <= end_time /\ a.end_time >= end_time)
    \/ (a.start_time >= start_time /\ a.end_time <= end_time)

(* The or_(and_(..), and_(..), and_(..)) filter of both conflict queries *)
time_conflict(a, start_time, end_time) ==
    \/ (a.start_time <= start_time /\ a.end_time > start_time)
    \/ (a.start_time < end_time /\ a.end_time >= end_time)
    \/ (a.start_time >= start_time /\ a.end_time <= end_time)

(* Mutant: every status but CANCELLED blocks *)
blocking_unless_cancelled(s) == s # CANCELLED

(* Appointment.status.in_([PENDING, CONFIRMED]) *)
blocking_status(s) == s \in {PENDING, CONFIRMED}

(* The conflict query, .first() is not None *)
conflicting_appointment(appts, stylist_id, start_time, end_time) ==
    \E i \in DOMAIN appts :
        /\ appts[i].stylist_id = stylist_id
        /\ blocking_status(appts[i].status)
        /\ time_conflict(appts[i], start_time, end_time)

(* The conflict query on its own: whether a row is found for the stylist and
   the interval, with the interval it was asked about *)
conflict_query(stylist_id, start_time, end_time) ==
    /\ last' = [op |-> "conflict_query",
                code |-> IF conflicting_appointment(appointments, stylist_id,
                                                    start_time, end_time)
                         THEN 1 ELSE 0,
                detail |-> "",
                slots |-> <<[start_time |-> start_time, end_time |-> end_time,
                             stylist_id |-> stylist_id]>>]
    /\ UNCHANGED <<appointments, services, stylists, inflight>>

----------------------------------------------------------------------------
(* Request validation (pydantic).  A field validator is not run for a field
   that is omitted or null: an Optional field left at its default None skips
   the validator, so only a supplied value reaches the check. *)

(* AppointmentBase.validate_address *)
validate_address(data) ==
    data.address = None
    \/ ~(data.appointment_type = AT_HOME /\ ~TruthyStr(data.address))

(* AppointmentStatusUpdate.validate_cancellation_reason *)
validate_cancellation_reason(status_data) ==
    status_data.cancellation_reason = None
    \/ ~(status_data.status = CANCELLED /\ ~TruthyStr(status_data.cancellation_reason))

----------------------------------------------------------------------------
(* create_appointment *)

Response(code, detail) == [code |-> code, detail |-> detail]

SlotConflict == "Time slot is not available"
OutsideHours == "Appointment time is outside of stylist's working hours"
NotWorkingDay == "Stylist does not work on this day"

(* role_required(UserRole.CLIENT) *)
get_client(current_user) == UserRoleOf(current_user) = CLIENT

(* Python truthiness of the working_hours column: NULL and {} are falsy *)
has_working_hours(wh) == wh.present /\ wh.days # {}

(* Mutant: an appointment may not end when the block ends *)
block_contains_strict(block, start_time, end_time) ==
    /\ start_time >= replace_time(start_time, block.start)
    /\ end_time < replace_time(start_time, block.end)

(* start_time >= work_start and end_time <= work_end for one stored block *)
block_contains(block, start_time, end_time) ==
    /\ start_time >= replace_time(start_time, block.start)
    /\ end_time <= replace_time(start_time, block.end)

(* The working-hours branch: "" when the request passes *)
working_hours_error(wh, start_time, end_time) ==
    IF has_working_hours(wh)
    THEN IF day_of_week(start_time) \in wh.days
         THEN LET blocks == wh.blocks[day_of_week(start_time)]
              IN IF \E i \in DOMAIN blocks : block_contains(blocks[i], start_time, end_time)
                 THEN ""
                 ELSE OutsideHours
         ELSE NotWorkingDay
    ELSE ""

(* Mutant: the fee is added whatever the appointment type *)
additional_fees_any_type(service, appointment_type) ==
    IF TruthyNum(service.home_service_fee)
    THEN TheValue(service.home_service_fee)
    ELSE 0

(* Add fee for at-home services *)
additional_fees_of(service, appointment_type) ==
    IF appointment_type = AT_HOME /\ TruthyNum(service.home_service_fee)
    THEN TheValue(service.home_service_fee)
    ELSE 0

(* Mutant: every appointment ends one hour after it starts *)
new_appointment_hour_long(current_user, data, service) ==
    LET additional_fees == additional_fees_of(service, data.appointment_type)
    IN [client_id |-> current_user,
        service_id |-> data.service_id,
        stylist_id |-> data.stylist_id,
        start_time |-> data.start_time,
        end_time |-> data.start_time + MinutesPerHour,
        appointment_type |-> data.appointment_type,
        address |-> data.address,
        status |-> PENDING,
        price |-> service.price + additional_fees,
        original_price |-> service.price,
        additional_fees |-> additional_fees,
        discount_amount |-> 0,
        is_paid |-> FALSE,
        cancellation_reason |-> None]

(* Appointment(...) as constructed by the handler *)
new_appointment(current_user, data, service) ==
    LET additional_fees == additional_fees_of(service, data.appointment_type)
    IN [client_id |-> current_user,
        service_id |-> data.service_id,
        stylist_id |-> data.stylist_id,
        start_time |-> data.start_time,
        end_time |-> data.start_time + service.duration_minutes,
        appointment_type |-> data.appointment_type,
        address |-> data.address,
        status |-> PENDING,
        price |-> service.price + additional_fees,
        original_price |-> service.price,
        additional_fees |-> additional_fees,
        discount_amount |-> 0,
        is_paid |-> FALSE,
        cancellation_reason |-> None]

(* Everything the handler decides before db.add: the response of a rejected
   request, or code 201 for a request that goes on to insert *)
create_decision(current_user, data, appts, svcs, stys) ==
    IF ~get_client(current_user)
    THEN Response(403, "Role not authorized")
    ELSE IF ~validate_address(data)
    THEN Response(422, "Address is required for at-home appointments")
    ELSE IF ActiveService(svcs, data.service_id) = None
    THEN Response(404, "Service not found or inactive")
    ELSE IF ActiveStylist(stys, data.stylist_id) = None
    THEN Response(404, "Stylist not found or inactive")
    ELSE IF data.service_id \notin stys[data.stylist_id].services
    THEN Response(400, "Stylist does not offer this service")
    ELSE LET end_time == data.start_time + svcs[data.service_id].duration_minutes
             hours == working_hours_error(stys[data.stylist_id].working_hours,
                                          data.start_time, end_time)
         IN IF conflicting_appointment(appts, data.stylist_id, data.start_time, end_time)
            THEN Response(400, SlotConflict)
            ELSE IF hours # ""
            THEN Response(400, hours)
            ELSE Response(201, "created")

Last(op, response) ==
    [op |-> op, code |-> response.code, detail |-> response.detail, slots |-> <<>>]

(* Mutant: the row is added before the working-hours check *)
create_appointment_result_adding_early(current_user, data, appts, svcs, stys) ==
    LET decision == create_decision(current_user, data, appts, svcs, stys)
    IN [response |-> decision,
        appointments |->
            IF decision.code = 201 \/ decision.detail \in {OutsideHours, NotWorkingDay}
            THEN Append(appts, new_appointment(current_user, data, svcs[data.service_id]))
            ELSE appts]

(* The handler as a function of the rows it reads: its response and the
   appointment rows after db.commit (unchanged when it raises) *)
create_appointment_result(current_user, data, appts, svcs, stys) ==
    LET decision == create_decision(current_user, data, appts, svcs, stys)
    IN [response |-> decision,
        appointments |->
            IF decision.code = 201
            THEN Append(appts, new_appointment(current_user, data, svcs[data.service_id]))
            ELSE appts]

create_appointment(current_user, data) ==
    LET result == create_appointment_result(current_user, data, appointments,
                                            services, stylists)
    IN /\ appointments' = result.appointments
       /\ last' = Last("create_appointment", result.response)
       /\ UNCHANGED <<services, stylists, inflight>>

----------------------------------------------------------------------------
(* check_availability *)

TimeSlot(start_time, end_time, stylist_id) ==
    [start_time |-> start_time, end_time |-> end_time, stylist_id |-> stylist_id]

(* Mutant: the loop runs while the cursor is before work_end, whatever the
   duration *)
RECURSIVE block_slots_ignoring_duration(_, _, _, _, _)
block_slots_ignoring_duration(appts, stylist_id, slot_start, work_end, duration) ==
    IF slot_start < work_end
    THEN (IF ~conflicting_appointment(appts, stylist_id, slot_start, slot_start + duration)
          THEN <<TimeSlot(slot_start, slot_start + duration, stylist_id)>>
          ELSE <<>>)
         \o block_slots_ignoring_duration(appts, stylist_id, slot_start + SlotStepMinutes,
                                          work_end, duration)
    ELSE <<>>

(* Mutant: the loop stops before the slot that ends exactly at work_end *)
RECURSIVE block_slots_strict(_, _, _, _, _)
block_slots_strict(appts, stylist_id, slot_start, work_end, duration) ==
    IF slot_start + duration < work_end
    THEN (IF ~conflicting_appointment(appts, stylist_id, slot_start, slot_start + duration)
          THEN <<TimeSlot(slot_start, slot_start + duration, stylist_id)>>
          ELSE <<>>)
         \o block_slots_strict(appts, stylist_id, slot_start + SlotStepMinutes,
                               work_end, duration)
    ELSE <<>>

(* The while loop over one working block: the cursor starts at work_start and
   advances by 30 minutes while slot_start + service_duration <= work_end *)
RECURSIVE block_slots(_, _, _, _, _)
block_slots(appts, stylist_id, slot_start, work_end, duration) ==
    IF slot_start + duration <= work_end
    THEN (IF ~conflicting_appointment(appts, stylist_id, slot_start, slot_start + duration)
          THEN <<TimeSlot(slot_start, slot_start + duration, stylist_id)>>
          ELSE <<>>)
         \o block_slots(appts, stylist_id, slot_start + SlotStepMinutes, work_end, duration)
    ELSE <<>>

(* for time_slot in working_hours, in stored order, from the i-th block on *)
RECURSIVE day_slots(_, _, _, _, _, _)
day_slots(appts, stylist_id, date, blocks, i, duration) ==
    IF i > Len(blocks)
    THEN <<>>
    ELSE block_slots(appts, stylist_id, replace_time(date, blocks[i].start),
                     replace_time(date, blocks[i].end), duration)
         \o day_slots(appts, stylist_id, date, blocks, i + 1, duration)

(* One iteration of for stylist in stylists *)
stylist_slots(appts, stys, id, date, duration) ==
    LET wh == stys[id].working_hours
    IN IF ~has_working_hours(wh) \/ day_of_week(date) \notin wh.days
       THEN <<>>
       ELSE day_slots(appts, id, date, wh.blocks[day_of_week(date)], 1, duration)

(* Active stylists offering the service, narrowed to stylist_id when it is truthy *)
candidate_stylist(stys, id, service_id, stylist_id) ==
    /\ stys[id].is_active
    /\ service_id \in stys[id].services
    /\ (TruthyNum(stylist_id) => id = TheValue(stylist_id))

(* Mutant: break instead of continue at a stylist who does not work that day *)
RECURSIVE available_slots_stopping(_, _, _, _, _, _, _)
available_slots_stopping(appts, stys, id, service_id, date, stylist_id, duration) ==
    IF id > Len(stys)
    THEN <<>>
    ELSE IF candidate_stylist(stys, id, service_id, stylist_id)
    THEN IF \/ ~has_working_hours(stys[id].working_hours)
            \/ day_of_week(date) \notin stys[id].working_hours.days
         THEN <<>>
         ELSE stylist_slots(appts, stys, id, date, duration)
              \o available_slots_stopping(appts, stys, id + 1, service_id, date,
                                          stylist_id, duration)
    ELSE available_slots_stopping(appts, stys, id + 1, service_id, date,
                                  stylist_id, duration)

(* for stylist in stylists, in row order, from row id on *)
RECURSIVE available_slots(_, _, _, _, _, _, _)
available_slots(appts, stys, id, service_id, date, stylist_id, duration) ==
    IF id > Len(stys)
    THEN <<>>
    ELSE (IF candidate_stylist(stys, id, service_id, stylist_id)
          THEN stylist_slots(appts, stys, id, date, duration)
          ELSE <<>>)
         \o available_slots(appts, stys, id + 1, service_id, date, stylist_id, duration)

(* The handler as a function of the rows it reads: its status code and the
   list it returns *)
check_availability_result(service_id, date, stylist_id, appts, svcs, stys) ==
    IF ActiveService(svcs, service_id) = None
    THEN [op |-> "check_availability", code |-> 404,
          detail |-> "Service not found or inactive", slots |-> <<>>]
    ELSE [op |-> "check_availability", code |-> 200, detail |-> "ok",
          slots |-> available_slots(appts, stys, 1, service_id, date, stylist_id,
                                    svcs[service_id].duration_minutes)]

(* Mutant: the call also expires the PENDING appointments it read *)
check_availability_expiring(service_id, date, stylist_id) ==
    /\ last' = check_availability_result(service_id, date, stylist_id,
                                         appointments, services, stylists)
    /\ appointments' = [i \in DOMAIN appointments |->
                          IF appointments[i].status = PENDING
                          THEN [appointments[i] EXCEPT !.status = NO_SHOW]
                          ELSE appointments[i]]
    /\ UNCHANGED <<services, stylists, inflight>>

check_availability(service_id, date, stylist_id) ==
    /\ last' = check_availability_result(service_id, date, stylist_id,
                                         appointments, services, stylists)
    /\ UNCHANGED <<appointments, services, stylists, inflight>>

----------------------------------------------------------------------------
(* update_appointment_status *)

(* The salon-owner branch: the appointment's stylist's salon is owned by the caller *)
owns_salon_of(stys, appointment, current_user) ==
    SalonOwner(stys[appointment.stylist_id].salon_id) = current_user

(* Mutant: the CLIENT branch without the ownership test *)
status_update_forbidden_any_client(current_user, appointment, status_data, stys) ==
    CASE UserRoleOf(current_user) = CLIENT ->
            IF status_data.status # CANCELLED
            THEN "Clients can only cancel appointments"
            ELSE ""
      [] UserRoleOf(current_user) = STYLIST ->
            IF appointment.stylist_id # current_user
            THEN "Not authorized to update this appointment"
            ELSE IF status_data.status \notin {CONFIRMED, COMPLETED, NO_SHOW}
            THEN "Stylists can only confirm, complete, or mark appointments as no-show"
            ELSE ""
      [] UserRoleOf(current_user) = SALON_OWNER ->
            IF ~owns_salon_of(stys, appointment, current_user)
            THEN "Not authorized to update this appointment"
            ELSE ""
      [] OTHER -> ""

(* The role branches of update_appointment_status: "" when the caller may proceed *)
status_update_forbidden(current_user, appointment, status_data, stys) ==
    CASE UserRoleOf(current_user) = CLIENT ->
            IF appointment.client_id # current_user
            THEN "Not authorized to update this appointment"
            ELSE IF status_data.status # CANCELLED
            THEN "Clients can only cancel appointments"
            ELSE ""
      [] UserRoleOf(current_user) = STYLIST ->
            IF appointment.stylist_id # current_user
            THEN "Not authorized to update this appointment"
            ELSE IF status_data.status \notin {CONFIRMED, COMPLETED, NO_SHOW}
            THEN "Stylists can only confirm, complete, or mark appointments as no-show"
            ELSE ""
      [] UserRoleOf(current_user) = SALON_OWNER ->
            IF ~owns_salon_of(stys, appointment, current_user)
            THEN "Not authorized to update this appointment"
            ELSE ""
      [] OTHER -> ""

status_decision(current_user, appointment_id, status_data, appts, stys) ==
    IF ~validate_cancellation_reason(status_data)
    THEN Response(422, "Cancellation reason is required when cancelling an appointment")
    ELSE IF appointment_id \notin DOMAIN appts
    THEN Response(404, "Appointment not found")
    ELSE IF status_update_forbidden(current_user, appts[appointment_id], status_data, stys) # ""
    THEN Response(403, status_update_forbidden(current_user, appts[appointment_id],
                                               status_data, stys))
    ELSE Response(200, "updated")

(* Mutant: the reason of the request is stored whatever the new status *)
apply_status_storing_any_reason(appointment, status_data) ==
    [appointment EXCEPT
        !.status = status_data.status,
        !.cancellation_reason =
            IF TruthyStr(status_data.cancellation_reason)
            THEN status_data.cancellation_reason
            ELSE @]

(* Mutant: cancelling also marks the appointment unpaid *)
apply_status_refunding(appointment, status_data) ==
    [appointment EXCEPT
        !.status = status_data.status,
        !.cancellation_reason =
            IF status_data.status = CANCELLED /\ TruthyStr(status_data.cancellation_reason)
            THEN status_data.cancellation_reason
            ELSE @,
        !.is_paid = IF status_data.status = CANCELLED THEN FALSE ELSE @]

(* appointment.status = status_data.status, and the reason when cancelling with one *)
apply_status(appointment, status_data) ==
    [appointment EXCEPT
        !.status = status_data.status,
        !.cancellation_reason =
            IF status_data.status = CANCELLED /\ TruthyStr(status_data.cancellation_reason)
            THEN status_data.cancellation_reason
            ELSE @]

(* The handler as a function of the rows it reads *)
update_appointment_status_result(current_user, appointment_id, status_data, appts, stys) ==
    LET decision == status_decision(current_user, appointment_id, status_data, appts, stys)
    IN [response |-> decision,
        appointments |->
            IF decision.code = 200
            THEN [appts EXCEPT
                    ![appointment_id] = apply_status(appts[appointment_id], status_data)]
            ELSE appts]

update_appointment_status(current_user, appointment_id, status_data) ==
    LET result == update_appointment_status_result(current_user, appointment_id,
                                                   status_data, appointments, stylists)
    IN /\ appointments' = result.appointments
       /\ last' = Last("update_appointment_status", result.response)
       /\ UNCHANGED <<services, stylists, inflight>>

----------------------------------------------------------------------------
(* update_appointment_payment *)

(* role_required(UserRole.SALON_OWNER, UserRole.STYLIST) *)
get_salon_staff(current_user) == UserRoleOf(current_user) \in {SALON_OWNER, STYLIST}

payment_decision(current_user, appointment_id, appts, stys) ==
    IF ~get_salon_staff(current_user)
    THEN Response(403, "Role not authorized")
    ELSE IF appointment_id \notin DOMAIN appts
    THEN Response(404, "Appointment not found")
    ELSE IF \/ (UserRoleOf(current_user) = STYLIST
                /\ appts[appointment_id].stylist_id # current_user)
            \/ (UserRoleOf(current_user) = SALON_OWNER
                /\ ~owns_salon_of(stys, appts[appointment_id], current_user))
    THEN Response(403, "Not authorized to update this appointment")
    ELSE Response(200, "updated")

(* Mutant: a payment also confirms the appointment *)
update_appointment_payment_confirming(current_user, appointment_id, payment_data, appts, stys) ==
    LET decision == payment_decision(current_user, appointment_id, appts, stys)
    IN [response |-> decision,
        appointments |->
            IF decision.code = 200
            THEN [appts EXCEPT ![appointment_id].is_paid = payment_data.is_paid,
                               ![appointment_id].status =
                                    IF payment_data.is_paid THEN CONFIRMED ELSE @]
            ELSE appts]

(* The handler as a function of the rows it reads *)
update_appointment_payment_result(current_user, appointment_id, payment_data, appts, stys) ==
    LET decision == payment_decision(current_user, appointment_id, appts, stys)
    IN [response |-> decision,
        appointments |->
            IF decision.code = 200
            THEN [appts EXCEPT ![appointment_id].is_paid = payment_data.is_paid]
            ELSE appts]

update_appointment_payment(current_user, appointment_id, payment_data) ==
    LET result == update_appointment_payment_result(current_user, appointment_id,
                                                    payment_data, appointments, stylists)
    IN /\ appointments' = result.appointments
       /\ last' = Last("update_appointment_payment", result.response)
       /\ UNCHANGED <<services, stylists, inflight>>

----------------------------------------------------------------------------
(* delete_service and update_stylist_working_hours *)

delete_decision(current_user, service_id, svcs) ==
    IF service_id \notin DOMAIN svcs
    THEN Response(404, "Service not found")
    ELSE IF UserRoleOf(current_user) # ADMIN
            /\ SalonOwner(svcs[service_id].salon_id) # current_user
    THEN Response(403, "Not authorized to delete this service")
    ELSE Response(204, "deleted")

(* Mutant: the row is deleted and the delete cascades to its appointments *)
delete_service_cascading(current_user, service_id) ==
    LET decision == delete_decision(current_user, service_id, services)
    IN /\ services' =
            IF decision.code = 204
            THEN [services EXCEPT ![service_id].is_active = FALSE]
            ELSE services
       /\ appointments' =
            IF decision.code = 204
            THEN SelectSeq(appointments, LAMBDA a : a.service_id # service_id)
            ELSE appointments
       /\ last' = Last("delete_service", decision)
       /\ UNCHANGED <<stylists, inflight>>

delete_service(current_user, service_id) ==
    LET decision == delete_decision(current_user, service_id, services)
    IN /\ services' =
            IF decision.code = 204
            THEN [services EXCEPT ![service_id].is_active = FALSE]
            ELSE services
       /\ last' = Last("delete_service", decision)
       /\ UNCHANGED <<appointments, stylists, inflight>>

working_hours_decision(current_user, stylist_id, stys) ==
    IF stylist_id \notin DOMAIN stys
    THEN Response(404, "Stylist not found")
    ELSE IF ~(\/ UserRoleOf(current_user) = ADMIN
              \/ stys[stylist_id].user_id = Some(current_user)
              \/ SalonOwner(stys[stylist_id].salon_id) = current_user)
    THEN Response(403, "Not authorized to update this stylist's working hours")
    ELSE Response(200, "updated")

update_stylist_working_hours(current_user, stylist_id, hours_data) ==
    LET decision == working_hours_decision(current_user, stylist_id, stylists)
    IN /\ stylists' =
            IF decision.code = 200
            THEN [stylists EXCEPT ![stylist_id].working_hours = hours_data]
            ELSE stylists
       /\ last' = Last("update_stylist_working_hours", decision)
       /\ UNCHANGED <<appointments, services, inflight>>

----------------------------------------------------------------------------
(* Concurrent create_appointment requests: each worker runs one request, the
   reads (lines 54-145) in one step and db.add/db.commit in a later one.  The
   handler holds no lock and opens no serializable transaction between the
   conflict query and the commit. *)

Workers == 1..NumWorkers

Idle == [pc |-> "idle", user |-> 0, data |-> [service_id |-> 0], response |-> Response(0, "")]

begin_create(w, current_user, data) ==
    LET decision == create_decision(current_user, data, appointments, services, stylists)
    IN /\ inflight[w].pc = "idle"
       /\ inflight' = [inflight EXCEPT
                        ![w] = [pc |-> IF decision.code = 201 THEN "checked" ELSE "done",
                                user |-> current_user,
                                data |-> data,
                                response |-> decision]]
       /\ UNCHANGED <<appointments, services, stylists, last>>

commit_create(w) ==
    /\ inflight[w].pc = "checked"
    /\ appointments' =
         Append(appointments,
                new_appointment(inflight[w].user, inflight[w].data,
                                services[inflight[w].data.service_id]))
    /\ inflight' = [inflight EXCEPT ![w].pc = "done"]
    /\ UNCHANGED <<services, stylists, last>>

(* Concurrent update_appointment_status requests: a worker reads the row and
   decides (lines 424-474) in one step and assigns and commits (lines 476-484)
   in a later one.  The commit writes the columns whose value differs from the
   value the worker loaded; the row carries no version counter. *)
begin_status(w, current_user, appointment_id, status_data) ==
    LET decision == status_decision(current_user, appointment_id, status_data,
                                    appointments, stylists)
    IN /\ inflight[w].pc = "idle"
       /\ inflight' = [inflight EXCEPT
                        ![w] = [pc |-> IF decision.code = 200 THEN "loaded" ELSE "done",
                                user |-> current_user,
                                data |-> [appointment_id |-> appointment_id,
                                          status_data |-> status_data,
                                          loaded |-> IF decision.code = 200
                                                     THEN Some(appointments[appointment_id])
                                                     ELSE None],
                                response |-> decision]]
       /\ UNCHANGED <<appointments, services, stylists, last>>

commit_status(w) ==
    /\ inflight[w].pc = "loaded"
    /\ LET id == inflight[w].data.appointment_id
           loaded == TheValue(inflight[w].data.loaded)
           assigned == apply_status(loaded, inflight[w].data.status_data)
       IN appointments' =
            [appointments EXCEPT
                ![id].status =
                    IF assigned.status # loaded.status THEN assigned.status ELSE @,
                ![id].cancellation_reason =
                    IF assigned.cancellation_reason # loaded.cancellation_reason
                    THEN assigned.cancellation_reason
                    ELSE @]
    /\ inflight' = [inflight EXCEPT ![w].pc = "done"]
    /\ UNCHANGED <<services, stylists, last>>

----------------------------------------------------------------------------
(* Requests *)

Monday == "monday"
Tuesday == "tuesday"
Wednesday == "wednesday"

CreateData(service_id, stylist_id, start_time, appointment_type, address) ==
    [service_id |-> service_id, stylist_id |-> stylist_id, start_time |-> start_time,
     appointment_type |-> appointment_type, address |-> address]

StatusData(status, cancellation_reason) ==
    [status |-> status, cancellation_reason |-> cancellation_reason]

StartTimes ==
    {At(Monday, 9, 0), At(Monday, 9, 30), At(Monday, 10, 0), At(Monday, 12, 0),
     At(Tuesday, 9, 0), At(Wednesday, 9, 0)}

Addresses == {None, Some(""), Some("12 Elm St")}
Reasons == {None, Some(""), Some("client request")}

(* Booking, in-salon: the stylist with working hours for the 60 and 45 minute
   services at every start time, the stylist without working hours, and one
   request for each row that is inactive, missing or not offered *)
BookingRequests ==
    {CreateData(sv, 1, t, IN_SALON, None) : sv \in {1, 2}, t \in StartTimes}
    \cup {CreateData(1, 2, t, IN_SALON, None) :
            t \in {At(Monday, 9, 0), At(Monday, 9, 30), At(Tuesday, 9, 0)}}
    \cup {CreateData(sv, 1, At(Monday, 9, 0), IN_SALON, None) : sv \in {3, 4, 5}}
    \cup {CreateData(1, st, At(Monday, 9, 0), IN_SALON, None) : st \in {3, 4}}

(* Availability <<service_id, date, stylist_id>>: the 60 and 45 minute services
   on a day with two blocks, a day with none and a day with no entry, for any
   stylist and for each one, and the inactive and the missing service *)
AvailabilityDates == {At(Monday, 0, 0), At(Tuesday, 0, 0), At(Wednesday, 15, 30)}
AvailabilityStylists == {None, Some(0), Some(1), Some(2)}

AvailabilityRequests ==
    {<<sv, d, st>> : sv \in {1, 2}, d \in AvailabilityDates, st \in AvailabilityStylists}
    \cup {<<sv, At(Monday, 0, 0), None>> : sv \in {4, 5}}

(* Pricing: both appointment types and every address, with and without a home fee *)
PricingRequests ==
    {CreateData(sv, 2, t, ty, ad) :
        sv \in {1, 3}, t \in {At(Monday, 9, 0), At(Monday, 10, 0)},
        ty \in AppointmentType, ad \in Addresses}
    \cup {CreateData(2, 1, At(Monday, 12, 0), ty, ad) : ty \in AppointmentType, ad \in Addresses}

(* Lifecycle: one service and one stylist *)
LifecycleRequests ==
    {CreateData(1, 2, t, IN_SALON, None) : t \in {At(Monday, 9, 0), At(Monday, 10, 0)}}

(* Concurrent booking: the active rows, overlapping and disjoint start times *)
ConcurrentRequests ==
    {CreateData(sv, st, t, IN_SALON, None) :
        sv \in 1..2, st \in 1..2, t \in {At(Monday, 9, 0), At(Monday, 9, 30), At(Monday, 10, 0)}}

StatusRequests == {StatusData(st, r) : st \in AppointmentStatus, r \in Reasons}

(* Working-hours updates: two blocks stored in ascending order, the same two
   blocks stored in descending order, the initial hours, and the empty dict *)
MorningAfternoonHours ==
    [present |-> TRUE,
     days |-> {"monday"},
     blocks |-> [NoBlocks EXCEPT !["monday"] =
                    <<Block(9, 0, 10, 30), Block(14, 0, 15, 0)>>]]

AfternoonMorningHours ==
    [present |-> TRUE,
     days |-> {"monday"},
     blocks |-> [NoBlocks EXCEPT !["monday"] =
                    <<Block(14, 0, 15, 0), Block(9, 0, 10, 30)>>]]

EmptyHours == [present |-> TRUE, days |-> {}, blocks |-> NoBlocks]

HoursUpdates == {MorningAfternoonHours, AfternoonMorningHours, SplitDayHours, EmptyHours}

(* Booking and availability while working hours change *)
HoursBookingRequests ==
    {CreateData(1, 1, t, IN_SALON, None) : t \in {At(Monday, 9, 0), At(Monday, 14, 0)}}

HoursAvailabilityRequests ==
    {<<1, At(Monday, 0, 0), st>> : st \in {None, Some(1), Some(2)}}
    \cup {<<2, At(Monday, 0, 0), None>>, <<1, At(Tuesday, 0, 0), None>>}

Init ==
    /\ appointments = <<>>
    /\ services = InitServices
    /\ stylists = InitStylists
    /\ last = Last("init", Response(0, ""))
    /\ inflight = [w \in Workers |-> Idle]

(* Sequential booking and availability *)
Next ==
    \/ \E data \in BookingRequests :
            Len(appointments) < MaxAppointments /\ create_appointment(1, data)
    \/ \E q \in AvailabilityRequests : check_availability(q[1], q[2], q[3])
    \/ \E id \in 1..MaxAppointments :
            update_appointment_status(4, id, StatusData(CANCELLED, Some("client request")))

Spec == Init /\ [][Next]_vars

(* Sequential booking of every request shape, and service deletion *)
NextPricing ==
    \/ \E u \in {1, 4}, data \in PricingRequests :
            Len(appointments) < MaxAppointments /\ create_appointment(u, data)
    \/ \E u \in {1, 3, 4}, sv \in {2, 3, 5} : delete_service(u, sv)

SpecPricing == Init /\ [][NextPricing]_vars

(* Sequential lifecycle: every caller, status and reason *)
NextLifecycle ==
    \/ \E u \in {1, 4}, data \in LifecycleRequests :
            Len(appointments) < MaxLifecycleAppointments /\ create_appointment(u, data)
    \/ \E u \in UserIds, id \in 1..(MaxLifecycleAppointments + 1), data \in StatusRequests :
            update_appointment_status(u, id, data)
    \/ \E u \in UserIds, id \in 1..(MaxLifecycleAppointments + 1), paid \in BOOLEAN :
            update_appointment_payment(u, id, [is_paid |-> paid])

SpecLifecycle == Init /\ [][NextLifecycle]_vars

(* Concurrent booking *)
NextConcurrent ==
    \/ \E w \in Workers, data \in ConcurrentRequests : begin_create(w, 1, data)
    \/ \E w \in Workers : commit_create(w)

SpecConcurrent == Init /\ [][NextConcurrent]_vars

(* Sequential booking and availability while working hours are updated *)
NextHours ==
    \/ \E u \in {1, 4}, st \in {1, 2, 4}, hours_data \in HoursUpdates :
            update_stylist_working_hours(u, st, hours_data)
    \/ \E data \in HoursBookingRequests :
            Len(appointments) < MaxAppointments /\ create_appointment(1, data)
    \/ \E q \in HoursAvailabilityRequests : check_availability(q[1], q[2], q[3])

SpecHours == Init /\ [][NextHours]_vars

(* Every operation that writes an appointment or deletes a service *)
NextRetention ==
    \/ \E data \in LifecycleRequests :
            Len(appointments) < MaxLifecycleAppointments /\ create_appointment(1, data)
    \/ \E id \in 1..(MaxLifecycleAppointments + 1), st \in AppointmentStatus :
            update_appointment_status(4, id, StatusData(st, Some("client request")))
    \/ \E id \in 1..(MaxLifecycleAppointments + 1), paid \in BOOLEAN :
            update_appointment_payment(2, id, [is_paid |-> paid])
    \/ \E u \in {1, 4}, sv \in {1, 2} : delete_service(u, sv)

SpecRetention == Init /\ [][NextRetention]_vars

(* The conflict query against one stored appointment: 30 and 60 minute
   intervals of the stylist without working hours, a quarter of an hour apart *)
OverlapTimes ==
    {At(Monday, 9, 0), At(Monday, 9, 15), At(Monday, 9, 30), At(Monday, 9, 45),
     At(Monday, 10, 0), At(Monday, 10, 15), At(Monday, 10, 30)}

InitOverlap ==
    /\ appointments \in
          {<<new_appointment(1, CreateData(sv, 2, t, IN_SALON, None), InitServices[sv])>> :
              sv \in {1, 3}, t \in OverlapTimes}
    /\ services = InitServices
    /\ stylists = InitStylists
    /\ last = Last("init", Response(0, ""))
    /\ inflight = [w \in Workers |-> Idle]

NextOverlap ==
    \E stylist_id \in {1, 2}, sv \in {1, 3}, t \in OverlapTimes :
        conflict_query(stylist_id, t, t + services[sv].duration_minutes)

SpecOverlap == InitOverlap /\ [][NextOverlap]_vars

(* Sequential booking, status updates and payment updates on one stylist:
   two overlapping requests, each status an administrator can set back and
   forth, payment by the salon owner *)
ReopenRequests ==
    {CreateData(1, 1, t, IN_SALON, None) : t \in {At(Monday, 9, 0), At(Monday, 9, 30)}}

ReopenStatusRequests ==
    {StatusData(CANCELLED, Some("client request")), StatusData(CONFIRMED, None),
     StatusData(PENDING, None)}

NextReopen ==
    \/ \E data \in ReopenRequests :
            Len(appointments) < MaxAppointments /\ create_appointment(1, data)
    \/ \E id \in 1..MaxAppointments, data \in ReopenStatusRequests :
            update_appointment_status(4, id, data)
    \/ \E id \in 1..MaxAppointments, paid \in BOOLEAN :
            update_appointment_payment(3, id, [is_paid |-> paid])

SpecReopen == Init /\ [][NextReopen]_vars

(* Concurrent status updates of one appointment, each a legal step from
   PENDING: confirm and cancel, by the client and by an administrator *)
ConcurrentStatusRequests ==
    {StatusData(CONFIRMED, None), StatusData(CANCELLED, Some("client request"))}

NextConcurrentStatus ==
    \/ Len(appointments) < MaxLifecycleAppointments
        /\ create_appointment(1, CreateData(1, 2, At(Monday, 9, 0), IN_SALON, None))
    \/ \E w \in Workers, u \in {1, 4}, id \in 1..MaxLifecycleAppointments,
           data \in ConcurrentStatusRequests :
            begin_status(w, u, id, data)
    \/ \E w \in Workers : commit_status(w)

SpecConcurrentStatus == Init /\ [][NextConcurrentStatus]_vars

(* Booking and availability around appointments of every status: two
   stylists, the 60-minute service at three overlapping and touching start
   times, and every status an administrator can give the first appointments *)
BlockingRequests ==
    {CreateData(1, st, t, IN_SALON, None) :
        st \in {1, 2}, t \in {At(Monday, 9, 0), At(Monday, 9, 30), At(Monday, 10, 0)}}

BlockingAvailabilityRequests == {<<1, At(Monday, 0, 0), st>> : st \in {None, Some(1)}}

BlockingStatusRequests ==
    {StatusData(CONFIRMED, None), StatusData(CANCELLED, Some("client request")),
     StatusData(COMPLETED, None), StatusData(NO_SHOW, None)}

NextBlocking ==
    \/ \E data \in BlockingRequests :
            Len(appointments) < MaxAppointments /\ create_appointment(1, data)
    \/ \E q \in BlockingAvailabilityRequests : check_availability(q[1], q[2], q[3])
    \/ \E id \in 1..MaxLifecycleAppointments, data \in BlockingStatusRequests :
            update_appointment_status(4, id, data)

SpecBlocking == Init /\ [][NextBlocking]_vars

(* The guard against the generator: requests on and off the 30-minute grid of
   the 09:00-11:00 block, one that fills the 12:00-12:45 block, one too long
   for it, and one for the stylist without working hours *)
GuardRequests ==
    {CreateData(1, 1, t, IN_SALON, None) :
        t \in {At(Monday, 9, 0), At(Monday, 9, 15), At(Monday, 10, 0), At(Monday, 12, 0)}}
    \cup {CreateData(2, 1, At(Monday, 12, 0), IN_SALON, None),
          CreateData(1, 2, At(Monday, 9, 0), IN_SALON, None)}

GuardAvailabilityRequests ==
    {<<1, At(Monday, 0, 0), Some(1)>>, <<2, At(Monday, 0, 0), Some(1)>>,
     <<1, At(Monday, 0, 0), Some(2)>>}

NextGuard ==
    \/ \E data \in GuardRequests :
            Len(appointments) < MaxAppointments /\ create_appointment(1, data)
    \/ \E q \in GuardAvailabilityRequests : check_availability(q[1], q[2], q[3])
    \/ \E id \in 1..MaxLifecycleAppointments :
            update_appointment_status(4, id, StatusData(CANCELLED, Some("client request")))

SpecGuard == Init /\ [][NextGuard]_vars

----------------------------------------------------------------------------
(* Vocabulary of the properties *)

(* Half-open overlap of [s1, e1) and [s2, e2) *)
overlaps(s1, e1, s2, e2) == s1 < e2 /\ s2 < e1

(* A PENDING or CONFIRMED appointment of the stylist overlapping [s, e) *)
ActiveOverlap(appts, stylist_id, s, e) ==
    \E i \in DOMAIN appts :
        /\ appts[i].stylist_id = stylist_id
        /\ appts[i].status \in {PENDING, CONFIRMED}
        /\ overlaps(appts[i].start_time, appts[i].end_time, s, e)

(* The request names an active service and an active stylist who offers it *)
Resolves(data) ==
    /\ data.service_id \in DOMAIN services /\ services[data.service_id].is_active
    /\ data.stylist_id \in DOMAIN stylists /\ stylists[data.stylist_id].is_active
    /\ data.service_id \in stylists[data.stylist_id].services

RequestedEnd(data) == data.start_time + services[data.service_id].duration_minutes

(* Some block stored for the weekday of s contains [s, e) *)
InsideWorkingBlock(wh, s, e) ==
    /\ wh.present
    /\ day_of_week(s) \in wh.days
    /\ \E i \in DOMAIN wh.blocks[day_of_week(s)] :
         LET b == wh.blocks[day_of_week(s)][i]
         IN /\ (s \div MinutesPerDay) * MinutesPerDay + b.start.h * MinutesPerHour + b.start.m <= s
            /\ e <= (s \div MinutesPerDay) * MinutesPerDay + b.end.h * MinutesPerHour + b.end.m

----------------------------------------------------------------------------
(* C1: under any interleaving of concurrent create_appointment requests, no
   two PENDING or CONFIRMED appointments of one stylist overlap. *)
C1_NoDoubleBooking ==
    \A i, j \in DOMAIN appointments :
        (/\ i < j
         /\ appointments[i].stylist_id = appointments[j].stylist_id
         /\ appointments[i].status \in {PENDING, CONFIRMED}
         /\ appointments[j].status \in {PENDING, CONFIRMED})
        => ~overlaps(appointments[i].start_time, appointments[i].end_time,
                     appointments[j].start_time, appointments[j].end_time)

(* C2: of N >= 2 concurrent requests for the same stylist and the same
   interval, free and inside working hours at the start, exactly one creates
   an appointment and the others get the slot-conflict error. *)
C2_ExactlyOneSucceeds ==
    \A w \in Workers :
        LET same == {v \in Workers : inflight[v].pc # "idle"
                                     /\ inflight[v].data = inflight[w].data}
        IN (/\ inflight[w].pc = "done"
            /\ Cardinality(same) >= 2
            /\ \A v \in same : inflight[v].pc = "done"
            /\ create_decision(inflight[w].user, inflight[w].data, <<>>,
                               services, stylists).code = 201)
           => /\ Cardinality({v \in same : inflight[v].response.code = 201}) = 1
              /\ \A v \in same : inflight[v].response.code = 201
                                 \/ inflight[v].response.detail = SlotConflict

(* C3: in a sequential execution, a create_appointment request that names an
   active service and an active stylist offering it, and whose interval
   [start_time, start_time + duration) overlaps a PENDING or CONFIRMED
   appointment of that stylist, is answered 400 "Time slot is not available"
   and leaves the appointments as they were; this holds in every reachable
   state, so also for a slot an earlier check_availability offered. *)
C3_OverlapRejected ==
    \A data \in BookingRequests :
        (/\ Resolves(data)
         /\ ActiveOverlap(appointments, data.stylist_id, data.start_time, RequestedEnd(data)))
        => LET result == create_appointment_result(1, data, appointments, services, stylists)
           IN /\ result.response = Response(400, SlotConflict)
              /\ result.appointments = appointments

(* A request starting before an active appointment and ending inside it was
   rejected (for example 09:30-10:30 against an existing 10:00-11:00) *)
C3_Witness ==
    /\ last.op = "create_appointment"
    /\ last.detail = SlotConflict
    /\ \E i \in DOMAIN appointments :
         /\ appointments[i].status \in {PENDING, CONFIRMED}
         /\ appointments[i].start_time > At(Monday, 9, 0)

(* C4: every change of an appointment's status follows an edge of the
   lifecycle graph: PENDING to CONFIRMED or CANCELLED; CONFIRMED to
   COMPLETED, CANCELLED or NO_SHOW. *)
LifecycleEdges ==
    {<<PENDING, CONFIRMED>>, <<PENDING, CANCELLED>>, <<CONFIRMED, COMPLETED>>,
     <<CONFIRMED, CANCELLED>>, <<CONFIRMED, NO_SHOW>>}

C4_OnlyLifecycleEdges ==
    [][\A i \in DOMAIN appointments :
          (i \in DOMAIN appointments' /\ appointments'[i].status # appointments[i].status)
          => <<appointments[i].status, appointments'[i].status>> \in LifecycleEdges]_vars

(* C5: an appointment in status COMPLETED, CANCELLED or NO_SHOW keeps that
   status in every later state: a status update on it fails. *)
TerminalStatus == {COMPLETED, CANCELLED, NO_SHOW}

C5_TerminalIsFinal ==
    [][\A i \in DOMAIN appointments :
          appointments[i].status \in TerminalStatus
          => /\ i \in DOMAIN appointments'
             /\ appointments'[i].status = appointments[i].status]_vars

(* C6: a status update to CANCELLED without a non-empty cancellation_reason
   fails, so every CANCELLED appointment has a non-empty cancellation_reason. *)
C6_CancelledHasReason ==
    \A i \in DOMAIN appointments :
        appointments[i].status = CANCELLED => TruthyStr(appointments[i].cancellation_reason)

(* C7: every slot check_availability returns lies within one working block of
   its stylist for the weekday of the requested date, is exactly as long as
   the service, and overlaps no PENDING or CONFIRMED appointment of that
   stylist in the state it was generated from. *)
BlockStart(date, b) ==
    (date \div MinutesPerDay) * MinutesPerDay + b.start.h * MinutesPerHour + b.start.m

BlockEnd(date, b) ==
    (date \div MinutesPerDay) * MinutesPerDay + b.end.h * MinutesPerHour + b.end.m

(* The blocks stored for the stylist under the weekday of date *)
BlocksOn(stys, id, date) ==
    IF stys[id].working_hours.present /\ day_of_week(date) \in stys[id].working_hours.days
    THEN stys[id].working_hours.blocks[day_of_week(date)]
    ELSE <<>>

C7_SlotsInsideFreeBlocks ==
    \A q \in AvailabilityRequests :
        LET sv == q[1]
            d == q[2]
            r == check_availability_result(sv, d, q[3], appointments, services, stylists)
        IN \A k \in DOMAIN r.slots :
             LET slot == r.slots[k]
                 blocks == BlocksOn(stylists, slot.stylist_id, d)
             IN /\ \E i \in DOMAIN blocks :
                      /\ BlockStart(d, blocks[i]) <= slot.start_time
                      /\ slot.end_time <= BlockEnd(d, blocks[i])
                /\ slot.end_time - slot.start_time = services[sv].duration_minutes
                /\ ~ActiveOverlap(appointments, slot.stylist_id,
                                  slot.start_time, slot.end_time)

(* Slots were returned for a stylist who has a PENDING or CONFIRMED
   appointment on the day of the slots *)
C7_Witness ==
    /\ last.op = "check_availability"
    /\ \E k \in DOMAIN last.slots, i \in DOMAIN appointments :
         /\ appointments[i].stylist_id = last.slots[k].stylist_id
         /\ appointments[i].status \in {PENDING, CONFIRMED}
         /\ appointments[i].start_time \div MinutesPerDay
              = last.slots[k].start_time \div MinutesPerDay

(* C8: for a stylist with no PENDING or CONFIRMED appointment, each working
   block [bs, be) of the requested weekday yields exactly the slots
   [bs + 30k, bs + 30k + duration) with k >= 0 and bs + 30k + duration <= be;
   a block shorter than the service yields none.  Blocks 09:00-13:00 and
   14:00-18:00 with a 60-minute service give 7 + 7 slots, none at 13:00 or
   13:30. *)
ExpectedStarts(bs, be, duration) ==
    {bs + 30 * k : k \in {j \in 0..48 : bs + 30 * j + duration <= be}}

RECURSIVE ExpectedCount(_, _, _, _)
ExpectedCount(date, blocks, i, duration) ==
    IF i > Len(blocks)
    THEN 0
    ELSE Cardinality(ExpectedStarts(BlockStart(date, blocks[i]),
                                    BlockEnd(date, blocks[i]), duration))
         + ExpectedCount(date, blocks, i + 1, duration)

Candidate(sv, id, st) ==
    /\ stylists[id].is_active
    /\ sv \in stylists[id].services
    /\ (st = None \/ st = Some(0) \/ st = Some(id))

C8_ExactSlotsPerBlock ==
    /\ \A q \in AvailabilityRequests :
         LET sv == q[1]
             d == q[2]
             st == q[3]
             r == check_availability_result(sv, d, st, appointments, services, stylists)
         IN r.code = 200 =>
            \A id \in DOMAIN stylists :
              (/\ Candidate(sv, id, st)
               /\ \A i \in DOMAIN appointments :
                    appointments[i].stylist_id = id
                    => appointments[i].status \notin {PENDING, CONFIRMED})
              => LET blocks == BlocksOn(stylists, id, d)
                     dur == services[sv].duration_minutes
                     mine == {k \in DOMAIN r.slots : r.slots[k].stylist_id = id}
                 IN /\ {<<r.slots[k].start_time, r.slots[k].end_time>> : k \in mine}
                         = UNION {{<<x, x + dur>> :
                                     x \in ExpectedStarts(BlockStart(d, blocks[i]),
                                                          BlockEnd(d, blocks[i]), dur)} :
                                  i \in DOMAIN blocks}
                    /\ Cardinality(mine) = ExpectedCount(d, blocks, 1, dur)
    /\ LET day == day_slots(<<>>, 1, At(Monday, 0, 0),
                            <<Block(9, 0, 13, 0), Block(14, 0, 18, 0)>>, 1, 60)
       IN /\ Len(day) = 14
          /\ {day[k].start_time : k \in DOMAIN day}
               = {At(Monday, 9, 0), At(Monday, 9, 30), At(Monday, 10, 0), At(Monday, 10, 30),
                  At(Monday, 11, 0), At(Monday, 11, 30), At(Monday, 12, 0),
                  At(Monday, 14, 0), At(Monday, 14, 30), At(Monday, 15, 0), At(Monday, 15, 30),
                  At(Monday, 16, 0), At(Monday, 16, 30), At(Monday, 17, 0)}
    /\ day_slots(<<>>, 1, At(Monday, 0, 0), <<Block(12, 0, 12, 45)>>, 1, 60) = <<>>

(* With no appointment stored, the 60-minute service was offered in the
   09:00-11:00 block only (09:00, 09:30, 10:00): the 45-minute block gave
   nothing *)
C8_Witness ==
    /\ appointments = <<>>
    /\ last.op = "check_availability"
    /\ Len(last.slots) = 3
    /\ \A k \in DOMAIN last.slots :
         last.slots[k].end_time - last.slots[k].start_time = 60

(* C9: a create_appointment request whose interval lies in no working block
   of the stylist for the weekday of start_time is rejected, also when the
   stylist's working hours are unset, empty or have no entry for that
   weekday: every appointment a request adds lies inside a working block its
   stylist has at that time. *)
C9_CreatedInsideWorkingBlock ==
    [][(last'.op = "create_appointment" /\ Len(appointments') = Len(appointments) + 1)
       => LET a == appointments'[Len(appointments')]
          IN InsideWorkingBlock(stylists[a.stylist_id].working_hours,
                                a.start_time, a.end_time)]_vars

(* C10: a created appointment has original_price = service.price,
   discount_amount = 0, additional_fees = the service's home_service_fee when
   the appointment is AT_HOME and the fee is set, otherwise 0, and price =
   service.price + additional_fees.  Price 50 with home fee 15 gives 65, 15,
   50 at home and 50, 0, 50 in salon. *)
C10_PriceOfCreated ==
    /\ \A u \in {1, 4}, data \in PricingRequests :
         LET r == create_appointment_result(u, data, appointments, services, stylists)
         IN r.response.code = 201 =>
            LET a == r.appointments[Len(r.appointments)]
                sv == services[data.service_id]
                fee == IF data.appointment_type = AT_HOME /\ sv.home_service_fee # None
                       THEN TheValue(sv.home_service_fee)
                       ELSE 0
            IN /\ Len(r.appointments) = Len(appointments) + 1
               /\ a.original_price = sv.price
               /\ a.discount_amount = 0
               /\ a.additional_fees = fee
               /\ a.price = sv.price + fee
    /\ LET sv == [is_active |-> TRUE, salon_id |-> 1, duration_minutes |-> 60,
                  price |-> 50, home_service_fee |-> Some(15)]
           home == new_appointment(1, CreateData(1, 1, At(Monday, 9, 0), AT_HOME,
                                                 Some("12 Elm St")), sv)
           salon == new_appointment(1, CreateData(1, 1, At(Monday, 9, 0), IN_SALON, None), sv)
       IN /\ home.price = 65 /\ home.additional_fees = 15 /\ home.original_price = 50
          /\ salon.price = 50 /\ salon.additional_fees = 0 /\ salon.original_price = 50

(* Appointments were created at home with a fee of 15 and without a fee set,
   the last request being a create that succeeded *)
C10_Witness ==
    /\ last.op = "create_appointment"
    /\ last.code = 201
    /\ \E i \in DOMAIN appointments :
         /\ appointments[i].appointment_type = AT_HOME
         /\ appointments[i].additional_fees = 15
         /\ appointments[i].price = 65
    /\ \E i \in DOMAIN appointments :
         /\ appointments[i].appointment_type = AT_HOME
         /\ services[appointments[i].service_id].home_service_fee = None
         /\ appointments[i].additional_fees = 0

(* C11: every appointment create_appointment adds has status PENDING,
   is_paid = FALSE and end_time = start_time + the duration of its service,
   for every caller, appointment type and address of the request. *)
C11_CreatedPendingUnpaid ==
    \A u \in {1, 4}, data \in PricingRequests :
        LET r == create_appointment_result(u, data, appointments, services, stylists)
        IN r.response.code = 201 =>
           LET a == r.appointments[Len(r.appointments)]
           IN /\ a.status = PENDING
              /\ a.is_paid = FALSE
              /\ a.start_time = data.start_time
              /\ a.end_time = data.start_time + services[data.service_id].duration_minutes

(* A 30-minute and a 45-minute appointment were created, the last request
   being a create that succeeded *)
C11_Witness ==
    /\ last.op = "create_appointment"
    /\ last.code = 201
    /\ \E i, j \in DOMAIN appointments :
         /\ appointments[i].end_time - appointments[i].start_time = 30
         /\ appointments[j].end_time - appointments[j].start_time = 45
         /\ appointments[i].status = PENDING /\ appointments[j].status = PENDING

(* C12: a create_appointment request of type AT_HOME with a missing or empty
   address is rejected, so every stored AT_HOME appointment has a non-empty
   address. *)
C12_AtHomeHasAddress ==
    \A i \in DOMAIN appointments :
        appointments[i].appointment_type = AT_HOME => TruthyStr(appointments[i].address)

(* C13: update_appointment_payment by a caller who is not refused (403) sets
   is_paid of an existing appointment to the requested value and changes
   nothing else, whatever the appointment's status; for an id that does not
   exist it answers 404 and changes nothing. *)
C13_PaymentOnlySetsIsPaid ==
    \A u \in UserIds, id \in 1..(MaxLifecycleAppointments + 1), paid \in BOOLEAN :
        LET r == update_appointment_payment_result(u, id, [is_paid |-> paid],
                                                   appointments, stylists)
        IN r.response.code # 403 =>
             IF id \in DOMAIN appointments
             THEN /\ r.response.code = 200
                  /\ DOMAIN r.appointments = DOMAIN appointments
                  /\ r.appointments[id].is_paid = paid
                  /\ r.appointments[id].status = appointments[id].status
                  /\ r.appointments[id] = [appointments[id] EXCEPT !.is_paid = paid]
                  /\ \A j \in DOMAIN appointments :
                        j # id => r.appointments[j] = appointments[j]
             ELSE /\ r.response = Response(404, "Appointment not found")
                  /\ r.appointments = appointments

(* A payment update succeeded on an appointment that is paid and in a
   terminal status *)
C13_Witness ==
    /\ last.op = "update_appointment_payment"
    /\ last.code = 200
    /\ \E i \in DOMAIN appointments :
         /\ appointments[i].status \in TerminalStatus
         /\ appointments[i].is_paid

(* C14: a successful update_appointment_status to a status other than
   CANCELLED leaves cancellation_reason as it was, also when the request
   carries a cancellation_reason. *)
C14_ReasonUntouchedUnlessCancelling ==
    \A u \in UserIds, id \in DOMAIN appointments, data \in StatusRequests :
        LET r == update_appointment_status_result(u, id, data, appointments, stylists)
        IN (r.response.code = 200 /\ data.status # CANCELLED)
           => /\ r.appointments[id].cancellation_reason = appointments[id].cancellation_reason
              /\ r.appointments[id].status = data.status

(* An appointment that was cancelled with a reason has since been moved to
   another status by a successful status update and still has its reason *)
C14_Witness ==
    /\ last.op = "update_appointment_status"
    /\ last.code = 200
    /\ \E i \in DOMAIN appointments :
         /\ appointments[i].status # CANCELLED
         /\ TruthyStr(appointments[i].cancellation_reason)

(* C15: the slots check_availability returns are grouped by stylist in row
   order and, for each stylist, strictly ascending in start time, whatever
   the stored order of the stylist's working blocks. *)
C15_SlotsGroupedAndAscending ==
    \A q \in HoursAvailabilityRequests :
        LET r == check_availability_result(q[1], q[2], q[3], appointments, services, stylists)
        IN \A k, l \in DOMAIN r.slots :
             k < l => /\ r.slots[k].stylist_id <= r.slots[l].stylist_id
                      /\ (r.slots[k].stylist_id = r.slots[l].stylist_id
                          => r.slots[k].start_time < r.slots[l].start_time)

(* C16: a check_availability call writes no appointment, service or stylist,
   and the sequence it returned is the sequence the same call returns when
   repeated in the state it leaves. *)
C16_AvailabilityReadOnlyRepeatable ==
    [][last'.op = "check_availability"
       => /\ UNCHANGED <<appointments, services, stylists>>
          /\ \E q \in HoursAvailabilityRequests :
               /\ last' = check_availability_result(q[1], q[2], q[3],
                                                    appointments, services, stylists)
               /\ last' = check_availability_result(q[1], q[2], q[3],
                                                    appointments', services', stylists')]_vars

(* Slots were returned for a stylist who has a PENDING appointment *)
C16_Witness ==
    /\ last.op = "check_availability"
    /\ Len(last.slots) > 0
    /\ \E i \in DOMAIN appointments :
         /\ appointments[i].status = PENDING
         /\ appointments[i].stylist_id = last.slots[1].stylist_id

(* C17: no operation removes an appointment: every appointment of a state is
   still there, the same booking under the same id, after every step,
   including the deletion of its service, which only marks the service
   inactive. *)
C17_AppointmentsNeverRemoved ==
    [][/\ Len(appointments') >= Len(appointments)
       /\ \A i \in DOMAIN appointments :
            /\ i \in DOMAIN appointments'
            /\ appointments'[i].client_id = appointments[i].client_id
            /\ appointments'[i].service_id = appointments[i].service_id
            /\ appointments'[i].stylist_id = appointments[i].stylist_id
            /\ appointments'[i].start_time = appointments[i].start_time
            /\ appointments'[i].end_time = appointments[i].end_time
       /\ \A sv \in DOMAIN services : sv \in DOMAIN services']_vars

(* A service that has an appointment was deleted and the appointment is
   still stored *)
C17_Witness ==
    /\ last.op = "delete_service"
    /\ last.code = 204
    /\ \E i \in DOMAIN appointments : ~services[appointments[i].service_id].is_active

(* C18: a create_appointment request that fails, with whatever error, leaves
   the appointments exactly as they were; one that succeeds leaves the
   existing rows as they were and adds one complete row. *)
AppointmentFields ==
    {"client_id", "service_id", "stylist_id", "start_time", "end_time", "appointment_type",
     "address", "status", "price", "original_price", "additional_fees", "discount_amount",
     "is_paid", "cancellation_reason"}

C18_FailedCreateChangesNothing ==
    /\ \A u \in {1, 4},
          data \in BookingRequests
                   \cup {CreateData(1, 1, At(Monday, 9, 0), AT_HOME, Some(""))} :
         LET r == create_appointment_result(u, data, appointments, services, stylists)
         IN IF r.response.code = 201
            THEN /\ Len(r.appointments) = Len(appointments) + 1
                 /\ SubSeq(r.appointments, 1, Len(appointments)) = appointments
                 /\ DOMAIN r.appointments[Len(r.appointments)] = AppointmentFields
            ELSE r.appointments = appointments
    /\ \A i \in DOMAIN appointments : DOMAIN appointments[i] = AppointmentFields

(* A request outside the stylist's working blocks was refused while an
   appointment was stored *)
C18_Witness ==
    /\ last.op = "create_appointment"
    /\ last.code = 400
    /\ last.detail = OutsideHours
    /\ Len(appointments) >= 1

(* C19: create_appointment adds an appointment only for an active service and
   an active stylist who offers it; a missing or inactive service is answered
   404, then a missing or inactive stylist 404, then a stylist who does not
   offer the service 400, each leaving the appointments as they were. *)
C19_CreateNeedsResolvedRequest ==
    \A data \in BookingRequests :
        LET r == create_appointment_result(1, data, appointments, services, stylists)
            service_ok == data.service_id \in DOMAIN services
                          /\ services[data.service_id].is_active
            stylist_ok == data.stylist_id \in DOMAIN stylists
                          /\ stylists[data.stylist_id].is_active
        IN /\ r.response.code = 201
                => (/\ service_ok
                    /\ stylist_ok
                    /\ data.service_id \in stylists[data.stylist_id].services)
           /\ ~service_ok
                => (/\ r.response = Response(404, "Service not found or inactive")
                    /\ r.appointments = appointments)
           /\ (service_ok /\ ~stylist_ok)
                => (/\ r.response = Response(404, "Stylist not found or inactive")
                    /\ r.appointments = appointments)
           /\ (service_ok /\ stylist_ok
               /\ data.service_id \notin stylists[data.stylist_id].services)
                => (/\ r.response = Response(400, "Stylist does not offer this service")
                    /\ r.appointments = appointments)

(* A request for a service the stylist does not offer was refused while an
   appointment was stored *)
C19_Witness ==
    /\ last.op = "create_appointment"
    /\ last.code = 400
    /\ last.detail = "Stylist does not offer this service"
    /\ Len(appointments) >= 1

(* C20: the overlap test of the conflict query is symmetric and reflexive on
   intervals with start < end: asking about interval q against a stored
   interval a gives the answer that asking about a against a stored q gives,
   and an interval conflicts with itself. *)
C20_ConflictSymmetricReflexive ==
    last.op = "conflict_query" =>
        LET q == last.slots[1]
            a == appointments[1]
        IN (q.stylist_id = a.stylist_id /\ a.status \in {PENDING, CONFIRMED})
           => /\ a.start_time < a.end_time /\ q.start_time < q.end_time
              /\ (last.code = 1) = time_conflict(q, a.start_time, a.end_time)
              /\ (q.start_time = a.start_time /\ q.end_time = a.end_time) => last.code = 1

(* The query found a stored appointment that starts before the asked interval
   and ends inside it *)
C20_Witness ==
    /\ last.op = "conflict_query"
    /\ last.code = 1
    /\ appointments[1].start_time < last.slots[1].start_time
    /\ appointments[1].end_time < last.slots[1].end_time

(* C21: in every state reached by create_appointment, update_appointment_status
   and update_appointment_payment calls made one after the other, no PENDING
   or CONFIRMED appointment overlaps another PENDING or CONFIRMED appointment
   of its stylist. *)
C21_NoActiveOverlapSequential ==
    \A i \in DOMAIN appointments :
        \A j \in DOMAIN appointments \ {i} :
            (/\ blocking_status(appointments[i].status)
             /\ blocking_status(appointments[j].status)
             /\ appointments[i].stylist_id = appointments[j].stylist_id)
            => \/ appointments[i].end_time <= appointments[j].start_time
               \/ appointments[j].end_time <= appointments[i].start_time

(* C22: on intervals with start < end, the three-clause filter of the
   conflict query is true exactly when existing.start < e and
   s < existing.end, so the query finds a row exactly when an active
   appointment of the stylist overlaps the asked interval half-open. *)
C22_ThreeClausesAreHalfOpen ==
    last.op = "conflict_query" =>
        LET q == last.slots[1]
            a == appointments[1]
            half_open == a.start_time < q.end_time /\ q.start_time < a.end_time
        IN /\ a.start_time < a.end_time /\ q.start_time < q.end_time
           /\ time_conflict(a, q.start_time, q.end_time) = half_open
           /\ (last.code = 1) = (/\ a.stylist_id = q.stylist_id
                                 /\ a.status \in {PENDING, CONFIRMED}
                                 /\ half_open)

(* The query found nothing for an interval that starts when the stored
   appointment of the same stylist ends *)
C22_Witness ==
    /\ last.op = "conflict_query"
    /\ last.code = 0
    /\ last.slots[1].stylist_id = appointments[1].stylist_id
    /\ last.slots[1].start_time = appointments[1].end_time

(* C23: every slot check_availability returns for a service can be booked:
   an in-salon create_appointment by a client for that service, the slot's
   stylist and the slot's start time, made in the same state, is answered
   201 and adds an appointment with the slot's start and end time. *)
C23_OfferedSlotsAreBookable ==
    \A q \in HoursAvailabilityRequests :
        LET offered == check_availability_result(q[1], q[2], q[3],
                                                 appointments, services, stylists)
        IN \A k \in DOMAIN offered.slots :
             LET slot == offered.slots[k]
                 r == create_appointment_result(
                          1, CreateData(q[1], slot.stylist_id, slot.start_time, IN_SALON, None),
                          appointments, services, stylists)
                 a == r.appointments[Len(r.appointments)]
             IN /\ r.response.code = 201
                /\ Len(r.appointments) = Len(appointments) + 1
                /\ a.stylist_id = slot.stylist_id
                /\ a.service_id = q[1]
                /\ a.start_time = slot.start_time
                /\ a.end_time = slot.end_time

(* An appointment was created that ends exactly when a working block of its
   stylist ends, the last slot that block offers *)
C23_Witness ==
    /\ last.op = "create_appointment"
    /\ last.code = 201
    /\ LET a == appointments[Len(appointments)]
           wh == stylists[a.stylist_id].working_hours
       IN /\ has_working_hours(wh)
          /\ day_of_week(a.start_time) \in wh.days
          /\ \E i \in DOMAIN wh.blocks[day_of_week(a.start_time)] :
               a.end_time = replace_time(a.start_time,
                                         wh.blocks[day_of_week(a.start_time)][i].end)

(* C24: when update_appointment_status requests for one appointment run
   concurrently, every committed change of its status is an edge of the
   lifecycle graph, and a commit never replaces a terminal status. *)
C24_ConcurrentStatusFollowsLifecycle ==
    [][\A w \in Workers :
          (inflight[w].pc = "loaded" /\ inflight'[w].pc = "done")
          => LET id == inflight[w].data.appointment_id
                 before == appointments[id].status
                 after == appointments'[id].status
             IN /\ before \in TerminalStatus => after = before
                /\ after # before => <<before, after>> \in LifecycleEdges]_vars

(* C25: an appointment blocks a candidate interval, in create_appointment and
   in check_availability, exactly when it is of the same stylist, PENDING or
   CONFIRMED, and overlaps it: a create is refused for a slot conflict exactly
   then, and a grid start of a working block is offered exactly when no such
   appointment exists.  The interval of a CANCELLED, COMPLETED or NO_SHOW
   appointment, and of another stylist's appointment, is offered and booked. *)
C25_BlockedIffActiveOverlap ==
    /\ \A data \in BlockingRequests :
         LET r == create_appointment_result(1, data, appointments, services, stylists)
             blocked == \E i \in DOMAIN appointments :
                           /\ appointments[i].stylist_id = data.stylist_id
                           /\ appointments[i].status \in {PENDING, CONFIRMED}
                           /\ overlaps(appointments[i].start_time, appointments[i].end_time,
                                       data.start_time, RequestedEnd(data))
         IN /\ (r.response = Response(400, SlotConflict)) = blocked
            /\ ~blocked => r.response.code = 201
    /\ \A q \in BlockingAvailabilityRequests :
         LET r == check_availability_result(q[1], q[2], q[3], appointments, services, stylists)
             dur == services[q[1]].duration_minutes
             blocks == BlocksOn(stylists, 1, q[2])
         IN \A b \in DOMAIN blocks :
              \A x \in ExpectedStarts(BlockStart(q[2], blocks[b]),
                                      BlockEnd(q[2], blocks[b]), dur) :
                 (\E k \in DOMAIN r.slots :
                     r.slots[k] = [start_time |-> x, end_time |-> x + dur, stylist_id |-> 1])
                 = ~(\E i \in DOMAIN appointments :
                        /\ appointments[i].stylist_id = 1
                        /\ appointments[i].status \in {PENDING, CONFIRMED}
                        /\ overlaps(appointments[i].start_time, appointments[i].end_time,
                                    x, x + dur))

(* An interval held by an appointment in a terminal status was booked again
   for the same stylist *)
C25_Witness ==
    /\ last.op = "create_appointment"
    /\ last.code = 201
    /\ \E i \in DOMAIN appointments :
         LET a == appointments[Len(appointments)]
         IN /\ i < Len(appointments)
            /\ appointments[i].status \in TerminalStatus
            /\ appointments[i].stylist_id = a.stylist_id
            /\ overlaps(appointments[i].start_time, appointments[i].end_time,
                        a.start_time, a.end_time)

(* C26: intervals that only touch do not conflict: a create_appointment that
   starts when a PENDING or CONFIRMED appointment of the stylist ends, or ends
   when one starts, and overlaps no such appointment, is not refused for a
   slot conflict but created. *)
C26_BackToBackAccepted ==
    \A data \in BlockingRequests :
        LET r == create_appointment_result(1, data, appointments, services, stylists)
            active == {i \in DOMAIN appointments :
                          /\ appointments[i].stylist_id = data.stylist_id
                          /\ appointments[i].status \in {PENDING, CONFIRMED}}
        IN (/\ \E i \in active : \/ appointments[i].end_time = data.start_time
                                 \/ appointments[i].start_time = RequestedEnd(data)
            /\ \A i \in active : \/ appointments[i].end_time <= data.start_time
                                 \/ appointments[i].start_time >= RequestedEnd(data))
           => /\ r.response.detail # SlotConflict
              /\ r.response.code = 201
              /\ Len(r.appointments) = Len(appointments) + 1

(* An appointment was created that ends exactly when an earlier PENDING or
   CONFIRMED appointment of the same stylist starts *)
C26_Witness ==
    /\ last.op = "create_appointment"
    /\ last.code = 201
    /\ \E i \in DOMAIN appointments :
         LET a == appointments[Len(appointments)]
         IN /\ i < Len(appointments)
            /\ appointments[i].status \in {PENDING, CONFIRMED}
            /\ appointments[i].stylist_id = a.stylist_id
            /\ a.end_time = appointments[i].start_time

(* C27, as stated: for every appointment create_appointment creates,
   check_availability for the same service, stylist and date, in the state
   before the creation, returns a slot with the same start and end time. *)
StartOfDay(t) == (t \div MinutesPerDay) * MinutesPerDay

OfferedBefore(data) ==
    LET offered == check_availability_result(data.service_id, StartOfDay(data.start_time),
                                             Some(data.stylist_id),
                                             appointments, services, stylists)
    IN \E k \in DOMAIN offered.slots :
         /\ offered.slots[k].stylist_id = data.stylist_id
         /\ offered.slots[k].start_time = data.start_time
         /\ offered.slots[k].end_time = RequestedEnd(data)

C27_AcceptedWasOffered ==
    [][(last'.op = "create_appointment" /\ Len(appointments') = Len(appointments) + 1)
       => LET a == appointments'[Len(appointments')]
          IN OfferedBefore(CreateData(a.service_id, a.stylist_id, a.start_time,
                                      a.appointment_type, a.address))]_vars

(* C27, amended: the same, for an appointment of a stylist whose working
   hours are set and whose start time is a whole number of 30-minute steps
   after the start of a working block that contains its interval. *)
OnGridOfContainingBlock(data) ==
    LET blocks == BlocksOn(stylists, data.stylist_id, data.start_time)
    IN \E i \in DOMAIN blocks :
         /\ BlockStart(data.start_time, blocks[i]) <= data.start_time
         /\ RequestedEnd(data) <= BlockEnd(data.start_time, blocks[i])
         /\ (data.start_time - BlockStart(data.start_time, blocks[i])) % 30 = 0

C27_AcceptedOnGridWasOffered ==
    \A data \in GuardRequests :
        (/\ create_appointment_result(1, data, appointments, services,
                                      stylists).response.code = 201
         /\ OnGridOfContainingBlock(data))
        => OfferedBefore(data)

(* An appointment was created one hour into the 09:00-11:00 block of a
   stylist who already had a PENDING appointment *)
C27_Witness ==
    /\ last.op = "create_appointment"
    /\ last.code = 201
    /\ Len(appointments) >= 2
    /\ LET a == appointments[Len(appointments)]
       IN /\ a.stylist_id = 1
          /\ a.start_time = At(Monday, 10, 0)
          /\ \E i \in DOMAIN appointments :
               i < Len(appointments) /\ appointments[i].stylist_id = 1
               /\ appointments[i].status = PENDING

(* C28: no step (update_appointment_status and update_appointment_payment are
   the only ones that write to a stored appointment) changes an appointment's
   client_id, service_id, stylist_id, start_time, end_time, appointment_type,
   address, price, original_price, additional_fees or discount_amount, so they
   keep their creation-time values in every later state; and a step of
   update_appointment_status leaves is_paid as it was. *)
C28_UpdatesKeepBookingFields ==
    [][\A i \in DOMAIN appointments :
            /\ i \in DOMAIN appointments'
            /\ appointments'[i].client_id = appointments[i].client_id
            /\ appointments'[i].service_id = appointments[i].service_id
            /\ appointments'[i].stylist_id = appointments[i].stylist_id
            /\ appointments'[i].start_time = appointments[i].start_time
            /\ appointments'[i].end_time = appointments[i].end_time
            /\ appointments'[i].appointment_type = appointments[i].appointment_type
            /\ appointments'[i].address = appointments[i].address
            /\ appointments'[i].price = appointments[i].price
            /\ appointments'[i].original_price = appointments[i].original_price
            /\ appointments'[i].additional_fees = appointments[i].additional_fees
            /\ appointments'[i].discount_amount = appointments[i].discount_amount
            /\ last'.op = "update_appointment_status"
                 => appointments'[i].is_paid = appointments[i].is_paid]_vars

(* A status update succeeded and left a paid appointment CANCELLED and paid *)
C28_Witness ==
    /\ last.op = "update_appointment_status"
    /\ last.code = 200
    /\ \E i \in DOMAIN appointments :
         /\ appointments[i].is_paid
         /\ appointments[i].status = CANCELLED
         /\ appointments[i].price = appointments[i].original_price
                                      + appointments[i].additional_fees

(* Users whose role is CLIENT *)
ClientIds == {u \in UserIds : UserRoleOf(u) = CLIENT}

(* The client's own appointment, asked to be cancelled *)
OwnCancellation(u, id, data) ==
    appointments[id].client_id = u /\ data.status = CANCELLED

(* C30, as stated: a CLIENT's status update changes an appointment only when
   the appointment is the client's own and the requested status is CANCELLED;
   every other status update by a client is answered 403 and leaves the
   appointments unchanged. *)
C30_ClientOnlyCancelsOwn ==
    \A u \in ClientIds, id \in DOMAIN appointments, data \in StatusRequests :
        LET result == update_appointment_status_result(u, id, data, appointments, stylists)
        IN /\ result.appointments # appointments => OwnCancellation(u, id, data)
           /\ ~OwnCancellation(u, id, data)
                => (result.response.code = 403 /\ result.appointments = appointments)

(* C30, amended: a CLIENT's status update changes an appointment only when the
   appointment is the client's own and the requested status is CANCELLED; every
   other status update by a client leaves the appointments unchanged and is
   answered 403, or 422 when the body asks for CANCELLED with a cancellation
   reason that is null or empty. *)
C30_ClientOnlyCancelsOwnElseRejected ==
    \A u \in ClientIds, id \in DOMAIN appointments, data \in StatusRequests :
        LET result == update_appointment_status_result(u, id, data, appointments, stylists)
        IN /\ result.appointments # appointments => OwnCancellation(u, id, data)
           /\ ~OwnCancellation(u, id, data)
                => /\ result.appointments = appointments
                   /\ result.response.code =
                        IF validate_cancellation_reason(data) THEN 403 ELSE 422

(* A client was refused a status other than CANCELLED on their own appointment,
   which still has the status it was created with *)
C30_Witness ==
    /\ last.op = "update_appointment_status"
    /\ last.code = 403
    /\ last.detail = "Clients can only cancel appointments"
    /\ \E i \in DOMAIN appointments :
         appointments[i].client_id \in ClientIds /\ appointments[i].status = PENDING

(* The stylist's working hours are unset, or have no entry for the weekday *)
NotWorkingOn(id, date) ==
    \/ ~has_working_hours(stylists[id].working_hours)
    \/ day_of_week(date) \notin stylists[id].working_hours.days

(* The slots of a returned list that belong to one stylist, in order *)
SlotsOf(slots, id) ==
    LET of_stylist(s) == s.stylist_id = id
    IN SelectSeq(slots, of_stylist)

(* C29: check_availability for an active service answers 200; a stylist whose
   working hours are unset or have no entry for the requested weekday has no
   slot in the answer; and every candidate stylist who works that day has, in
   the answer, exactly the slots of their own working blocks, whoever else is
   a candidate. *)
C29_StylistWithoutHoursSkipped ==
    \A q \in HoursAvailabilityRequests :
        LET sv == q[1]
            d == q[2]
            st == q[3]
            r == check_availability_result(sv, d, st, appointments, services, stylists)
        IN ActiveService(services, sv) # None =>
             /\ r.code = 200
             /\ \A id \in DOMAIN stylists :
                  /\ NotWorkingOn(id, d) => SlotsOf(r.slots, id) = <<>>
                  /\ (Candidate(sv, id, st) /\ ~NotWorkingOn(id, d)) =>
                        SlotsOf(r.slots, id) =
                            day_slots(appointments, id, d,
                                      stylists[id].working_hours.blocks[day_of_week(d)],
                                      1, services[sv].duration_minutes)

(* The unfiltered query for service 1 on Monday was answered with slots of
   stylist 2 only, while stylist 1, a candidate listed first, has no working
   hours for that day *)
C29_Witness ==
    /\ last = check_availability_result(1, At(Monday, 0, 0), None,
                                        appointments, services, stylists)
    /\ last.code = 200
    /\ Candidate(1, 1, None)
    /\ NotWorkingOn(1, At(Monday, 0, 0))
    /\ last.slots # <<>>
    /\ \A k \in DOMAIN last.slots : last.slots[k].stylist_id = 2

====
